---- MODULE Spec2Model ----
(***************************************************************************)
(* Placement planner of yoimika/Tower: the support-surface Heightmap, the  *)
(* SAT CollisionDetector and get_block_position / generate_blocks_data of  *)
(* src/script.py, with the divergent Heightmap of src/src/core.            *)
(*                                                                         *)
(* Arithmetic.  World lengths are exact integers in units of 1/8 world     *)
(* unit: resolution 0.5 = 4, block edges 0.5 = 4 and 1.5 = 12, half edges  *)
(* 2 and 6.  Yaw is an index k standing for k * 90 degrees, the values of  *)
(* rot_range, so cos and sin are exactly 0, 1 or -1 and every edge of a    *)
(* box is parallel to a coordinate axis.  An area ratio is kept as its     *)
(* numerator over the cell area resolution^2; the threshold min_ratio is   *)
(* a pair <<num, den>>.                                                    *)
(***************************************************************************)
EXTENDS Integers, Sequences, FiniteSets, TLC

\* ------------------------------------------------------------ bounds --
\* Blocks per generate_blocks_data run (the code builds 17).
NumBlocks == 3
\* Cells per side of the planner's heightmap (the code's grid is 40 x 40).
GridCells == 8
\* Yaw indices drawn: 0..MaxRot, at most 0..3.
MaxRot == 1
\* ped_num is drawn from 2..2+PedSpan, at most 2..5.
PedSpan == 0
\* Jitter drawn from -JitterSpan..JitterSpan inside [-resolution, resolution).
JitterSpan == 1
\* Direct calls of Heightmap and Scene methods per behaviour.
MaxCalls == 2
ReplayCalls == 3
MaxScenes == 3
\* Coordinates queried: -QueryReach..QueryReach, beyond every edge of the
\* directly called heightmaps by more than one resolution.
QueryReach == 15
\* The x of the second box of a pair: -SatReach..SatReach, from overlap
\* through contact to a gap for the longest edges.
SatReach == 13

\* ----------------------------------------------------- program data --
\* resolution 0.5 (main: Heightmap(20, 20, 0.5)).
Res == 4
\* min_ratio = 0.4 = 2/5, the default of script.py's update_height.
MinRatioNum == 2
MinRatioDen == 5
\* min_ratio = 0.5 = 1/2, the default of src/core/heightmap.py.
CoreMinRatioNum == 1
CoreMinRatioDen == 2
\* range(5): the ground-level sample count.
GroundCount == 5
CoreBaseZ == 12
SEED == 42
GroundHalf == 8
CoreGroundHalf == 20
\* random.randint(2, 5)
PedLo == 2
PedHi == 5

\* size_dic keys: (0.5, 0.5, 1.5) and (1.5, 0.5, 0.5).
SizeTall == <<4, 4, 12>>
SizeLong == <<12, 4, 4>>
SIZES == {SizeTall, SizeLong}

\* ---------------------------------------------------------- helpers --
Abs(n) == IF n < 0 THEN -n ELSE n
Min2(a, b) == IF a <= b THEN a ELSE b
Max2(a, b) == IF a >= b THEN a ELSE b
SetMin(S) == CHOOSE m \in S : \A n \in S : m <= n
SetMax(S) == CHOOSE m \in S : \A n \in S : m >= n
Range(s) == {s[k] : k \in 1..Len(s)}

\* Python's int(a / b) for b > 0: truncation toward zero.
PyInt(a, b) == IF a >= 0 THEN a \div b ELSE -((-a) \div b)

\* cos and sin of yaw index k (k * 90 degrees).
Cos(k) == CASE k % 4 = 0 -> 1 [] k % 4 = 1 -> 0 [] k % 4 = 2 -> -1 [] OTHER -> 0
Sin(k) == CASE k % 4 = 0 -> 0 [] k % 4 = 1 -> 1 [] k % 4 = 2 -> 0 [] OTHER -> -1

\* -------------------------------------------------------- Heightmap --
\* Heightmap.__init__.  width and depth are even numbers of units, so that
\* width / 2 is exact.  occupancy 1.0 is the full cell area.
Heightmap(width, depth, resolution) ==
  LET gx == PyInt(width, resolution)
      gy == PyInt(depth, resolution)
      cells == (0..(gx - 1)) \X (0..(gy - 1))
  IN  [width |-> width, depth |-> depth, resolution |-> resolution,
       grid_x |-> gx, grid_y |-> gy,
       height |-> [c \in cells |-> 0],
       occupancy |-> [c \in cells |-> resolution * resolution]]

\* A faulty world_to_grid that leaves out the width / 2 offset.
world_to_grid_no_offset(self, x, y) ==
  << PyInt(x, self.resolution), PyInt(y, self.resolution) >>

\* int((x + width / 2) / resolution), computed on doubled numerators.
world_to_grid(self, x, y) ==
  << PyInt(2 * x + self.width, 2 * self.resolution),
     PyInt(2 * y + self.depth, 2 * self.resolution) >>

grid_to_world(self, gx, gy) ==
  << (gx * self.resolution) - (self.width \div 2),
     (gy * self.resolution) - (self.depth \div 2) >>

\* The result is <<h>> for a height h and << >> for Python's None.
get_height(self, x, y) ==
  LET g == world_to_grid(self, x, y)
  IN  IF 0 <= g[1] /\ g[1] < self.grid_x /\ 0 <= g[2] /\ g[2] < self.grid_y
      THEN << self.height[g] >> ELSE << >>

\* A faulty get_polygon that leaves the rectangle unrotated.
get_polygon_unrotated(position, size, rotation) ==
  LET hl == size[1] \div 2
      hw == size[2] \div 2
  IN  << << position[1] + hl, position[2] + hw >>,
         << position[1] + hl, position[2] - hw >>,
         << position[1] - hl, position[2] - hw >>,
         << position[1] - hl, position[2] + hw >> >>

\* The 4 corners of the footprint, in the order of the source.
get_polygon(position, size, rotation) ==
  LET hl == size[1] \div 2
      hw == size[2] \div 2
      c == Cos(rotation[3])
      s == Sin(rotation[3])
  IN  << << position[1] + hl * c - hw * s, position[2] + hl * s + hw * c >>,
         << position[1] + hl * c + hw * s, position[2] + hl * s - hw * c >>,
         << position[1] - hl * c + hw * s, position[2] - hl * s - hw * c >>,
         << position[1] - hl * c - hw * s, position[2] - hl * s + hw * c >> >>

\* polygon.bounds: (minx, miny, maxx, maxy).
PolyBounds(poly) ==
  << SetMin({poly[k][1] : k \in 1..4}), SetMin({poly[k][2] : k \in 1..4}),
     SetMax({poly[k][1] : k \in 1..4}), SetMax({poly[k][2] : k \in 1..4}) >>

\* A faulty overlap: the extent of the footprint, not clipped to the cell.
OverlapLenOfFootprint(lo1, hi1, lo2, hi2) == hi2 - lo2

\* cell.intersection(polygon) of a cell box with an axis-parallel rectangle:
\* the overlap lengths; a negative length is an empty intersection, a zero
\* one a shared edge or corner (not empty, area 0).
OverlapLen(lo1, hi1, lo2, hi2) == Min2(hi1, hi2) - Max2(lo1, lo2)

CellOverlap(self, x, y, b) ==
  LET lo == grid_to_world(self, x, y)
      hi == grid_to_world(self, x + 1, y + 1)
  IN  << OverlapLen(lo[1], hi[1], b[1], b[3]),
         OverlapLen(lo[2], hi[2], b[2], b[4]) >>

IsEmptyIntersection(ov) == ov[1] < 0 \/ ov[2] < 0
InterArea(ov) == ov[1] * ov[2]

\* area_ratio >= min_ratio, with area_ratio = inter_area / resolution^2.
RatioMeets(self, area, min_ratio) ==
  area * min_ratio[2] >= min_ratio[1] * self.resolution * self.resolution

\* numpy's a[i] on an axis of length n: a negative index wraps around once,
\* anything else outside 0..n-1 raises IndexError (here -1).
NpIndex(n, i) ==
  IF 0 <= i /\ i < n THEN i ELSE IF -n <= i /\ i < 0 THEN i + n ELSE -1

\* for x in range(min_x, max_x + 1): for y in range(min_y, max_y + 1)
LoopCells(min_x, max_x, min_y, max_y) ==
  LET ny == IF max_y >= min_y THEN max_y - min_y + 1 ELSE 0
      nx == IF max_x >= min_x THEN max_x - min_x + 1 ELSE 0
  IN  [k \in 1..(nx * ny) |-> << min_x + ((k - 1) \div ny), min_y + ((k - 1) % ny) >>]

\* The cells of the loop whose intersection is not empty and meets min_ratio.
Qualifies(self, x, y, b, min_ratio) ==
  LET ov == CellOverlap(self, x, y, b)
  IN  ~IsEmptyIntersection(ov) /\ RatioMeets(self, InterArea(ov), min_ratio)

\* A faulty raise that assigns the block height instead of adding it.
RaiseAssign(old, size) == size[3]

\* self.height[x, y] += size[2]
Raise(old, size) == old + size[3]

\* The body of update_height's loops from cell number k on; st is
\* [hm, error]: IndexError leaves the loop with the cells written so far.
RECURSIVE UpdateCells(_, _, _, _, _, _)
UpdateCells(st, cells, k, b, size, min_ratio) ==
  IF k > Len(cells) \/ st.error THEN st
  ELSE LET self == st.hm
           x == cells[k][1]
           y == cells[k][2]
           ix == NpIndex(self.grid_x, x)
           iy == NpIndex(self.grid_y, y)
       IN  IF ~Qualifies(self, x, y, b, min_ratio)
           THEN UpdateCells(st, cells, k + 1, b, size, min_ratio)
           ELSE IF ix = -1 \/ iy = -1
           THEN [st EXCEPT !.error = TRUE]
           ELSE UpdateCells(
                  [st EXCEPT !.hm.height[<<ix, iy>>] = Raise(@, size),
                             !.hm.occupancy[<<ix, iy>>] =
                                 InterArea(CellOverlap(self, x, y, b))],
                  cells, k + 1, b, size, min_ratio)

\* script.py Heightmap.update_height: the heightmap after the call and
\* whether the call raised IndexError.
update_height(self, position, size, rotation, min_ratio) ==
  LET b == PolyBounds(get_polygon(position, size, rotation))
      lo == world_to_grid(self, b[1], b[2])
      hi == world_to_grid(self, b[3], b[4])
  IN  UpdateCells([hm |-> self, error |-> FALSE],
                  LoopCells(lo[1], hi[1], lo[2], hi[2]), 1, b, size, min_ratio)

\* core/heightmap.py Heightmap.update_height: world_to_grid(self, x, y) is
\* called with the single argument polygon.bounds[0:2], which raises
\* TypeError before the loops are entered; no cell is written (the loop
\* body, never reached, calls cell.interscetion and adds position[2] / 2).
core_update_height(self, position, size, rotation, min_ratio) ==
  [hm |-> self, error |-> TRUE]

\* ------------------------------------------------ CollisionDetector --
Sub(u, v) == << u[1] - v[1], u[2] - v[2], u[3] - v[3] >>
Add(u, v) == << u[1] + v[1], u[2] + v[2], u[3] + v[3] >>
Dot(u, v) == u[1] * v[1] + u[2] * v[2] + u[3] * v[3]
Cross(u, v) == << u[2] * v[3] - u[3] * v[2],
                  u[3] * v[1] - u[1] * v[3],
                  u[1] * v[2] - u[2] * v[1] >>
Sgn(n) == IF n > 0 THEN 1 ELSE IF n < 0 THEN -1 ELSE 0

\* Vector.length of a vector parallel to an axis (or zero), in units.
AxisLength(v) == Abs(v[1]) + Abs(v[2]) + Abs(v[3])

\* Vector.normalized(): a vector parallel to an axis becomes the signed unit
\* vector of that axis, the zero vector stays the zero vector.
Normalized(v) == << Sgn(v[1]), Sgn(v[2]), Sgn(v[3]) >>

\* Euler(rotation, 'XYZ').to_matrix() @ v for a yaw-only rotation.
Rotate(rotation, v) ==
  LET c == Cos(rotation[3])
      s == Sin(rotation[3])
  IN  << v[1] * c - v[2] * s, v[1] * s + v[2] * c, v[3] >>

\* The 8 vertices, in the order of local_vertices.
get_block_vertices(position, size, rotation) ==
  LET hl == size[1] \div 2
      hw == size[2] \div 2
      hh == size[3] \div 2
      W(v) == Add(position, Rotate(rotation, v))
  IN  << W(<< hl, hw, hh >>), W(<< hl, hw, -hh >>),
         W(<< hl, -hw, hh >>), W(<< hl, -hw, -hh >>),
         W(<< -hl, hw, hh >>), W(<< -hl, hw, -hh >>),
         W(<< -hl, -hw, hh >>), W(<< -hl, -hw, -hh >>) >>

\* The faces list of get_block_faces (vertex numbers counted from 1).
get_block_faces(v) ==
  << << v[1], v[2], v[4], v[3] >>, << v[5], v[6], v[8], v[7] >>,
     << v[1], v[5], v[7], v[3] >>, << v[2], v[6], v[8], v[4] >>,
     << v[1], v[2], v[6], v[5] >>, << v[3], v[4], v[8], v[7] >> >>

get_face_normal(face_vertices) ==
  Normalized(Cross(Sub(face_vertices[2], face_vertices[1]),
                   Sub(face_vertices[3], face_vertices[1])))

\* The edge from each vertex of the face to the next, cyclically.
get_face_edges(f) ==
  << Sub(f[2], f[1]), Sub(f[3], f[2]), Sub(f[4], f[3]), Sub(f[1], f[4]) >>

\* <<min_val, max_val>> of the projections.
project_vertices(vertices, axis) ==
  LET P == {Dot(vertices[k], axis) : k \in 1..Len(vertices)}
  IN  << SetMin(P), SetMax(P) >>

\* cross.length > 0.001: a length of n units^2 is n / 64 world units^2.
CrossKept(cross) == 1000 * AxisLength(cross) > 64

\* The axes of unique_normals.  The loops over faces i, j and their edges
\* visit every pair (edge of a face of 1, edge of a face of 2); rounding to
\* 3 places is exact on unit and zero vectors, so the deduplicated list
\* holds exactly the distinct vectors, kept here as a set.
get_all_separating_axes(vertices1, vertices2) ==
  LET faces1 == get_block_faces(vertices1)
      faces2 == get_block_faces(vertices2)
      normals1 == {get_face_normal(faces1[f]) : f \in 1..6}
      normals2 == {get_face_normal(faces2[f]) : f \in 1..6}
      edges1 == UNION {Range(get_face_edges(faces1[f])) : f \in 1..6}
      edges2 == UNION {Range(get_face_edges(faces2[f])) : f \in 1..6}
      crosses == {Cross(e1, e2) : e1 \in edges1, e2 \in edges2}
      edge_normals == {Normalized(c) : c \in {d \in crosses : CrossKept(d)}}
  IN  normals1 \cup normals2 \cup edge_normals

\* A faulty test that reports a collision as soon as one axis overlaps.
separating_axis_theorem_any(vertices1, vertices2) ==
  LET normals == get_all_separating_axes(vertices1, vertices2)
  IN  \E normal \in normals :
          LET p1 == project_vertices(vertices1, normal)
              p2 == project_vertices(vertices2, normal)
          IN  ~(p1[2] <= p2[1] \/ p2[2] <= p1[1])

\* utils/collision_check.py: max1 < min2 or max2 < min1 on some axis means
\* no collision; the rest of the detector is that of script.py.
core_separating_axis_theorem(vertices1, vertices2) ==
  LET normals == get_all_separating_axes(vertices1, vertices2)
  IN  ~ \E normal \in normals :
          LET p1 == project_vertices(vertices1, normal)
              p2 == project_vertices(vertices2, normal)
          IN  p1[2] < p2[1] \/ p2[2] < p1[1]

\* script.py: max1 <= min2 or max2 <= min1 on some axis means no collision.
separating_axis_theorem(vertices1, vertices2) ==
  LET normals == get_all_separating_axes(vertices1, vertices2)
  IN  ~ \E normal \in normals :
          LET p1 == project_vertices(vertices1, normal)
              p2 == project_vertices(vertices2, normal)
          IN  p1[2] <= p2[1] \/ p2[2] <= p1[1]

\* A faulty check_block_collision whose loop stops one block short.
check_block_collision_short(existing_blocks, new_position, new_size, new_rotation) ==
  LET new_vertices == get_block_vertices(new_position, new_size, new_rotation)
  IN  \E k \in 1..(Len(existing_blocks) - 1) :
          separating_axis_theorem(
              new_vertices,
              get_block_vertices(existing_blocks[k].position,
                                 existing_blocks[k].size,
                                 existing_blocks[k].rotation))

\* script.py check_block_collision over the list of block records.
check_block_collision(existing_blocks, new_position, new_size, new_rotation) ==
  LET new_vertices == get_block_vertices(new_position, new_size, new_rotation)
  IN  \E k \in 1..Len(existing_blocks) :
          separating_axis_theorem(
              new_vertices,
              get_block_vertices(existing_blocks[k].position,
                                 existing_blocks[k].size,
                                 existing_blocks[k].rotation))

\* utils/collision_check.py check_block_collision over scene.blocks: a
\* block whose blender_object is unset is passed over.
core_check_block_collision(scene_blocks, new_position, new_size, new_rotation) ==
  LET new_vertices == get_block_vertices(new_position, new_size, new_rotation)
  IN  \E k \in 1..Len(scene_blocks) :
          /\ scene_blocks[k].blender_object
          /\ core_separating_axis_theorem(
                 new_vertices,
                 get_block_vertices(scene_blocks[k].position,
                                    scene_blocks[k].size,
                                    scene_blocks[k].rotation))

\* ------------------------------------- boxes with a slightly tilted yaw --
\* The same detector on boxes whose yaw is a quarter turn plus a tilt of
\* t * e radians, t an integer and e > 0 smaller than any threshold of the
\* code (0.0005 for round(_, 3), 0.001 for cross.length).  A coordinate
\* a + b * e is the pair <<a, b>>, a vector is <<r, d>> with r the vector
\* of the a's and d the vector of the b's; products drop the e * e term.
TSub(u, v) == << Sub(u[1], v[1]), Sub(u[2], v[2]) >>
TAdd(u, v) == << Add(u[1], v[1]), Add(u[2], v[2]) >>
TDot(u, v) == << Dot(u[1], v[1]), Dot(u[1], v[2]) + Dot(u[2], v[1]) >>
TCross(u, v) ==
  << Cross(u[1], v[1]), Add(Cross(u[1], v[2]), Cross(u[2], v[1])) >>

\* x < y and x <= y on coordinates a + b * e.
TLess(x, y) == x[1] < y[1] \/ (x[1] = y[1] /\ x[2] < y[2])
TLeq(x, y) == ~TLess(y, x)

\* Euler((0, 0, turn * 90 degrees + t * e)).to_matrix() @ v:
\* cos(e) = 1 and sin(e) = e up to e * e.
TRotate(turn, t, v) ==
  << Rotate(<<0, 0, turn>>, v),
     Rotate(<<0, 0, turn>>, << -t * v[2], t * v[1], 0 >>) >>

\* get_block_vertices for a yaw of turn quarter turns plus t * e.
tilt_get_block_vertices(position, size, turn, t) ==
  LET hl == size[1] \div 2
      hw == size[2] \div 2
      hh == size[3] \div 2
      W(v) == TAdd(<< position, <<0, 0, 0>> >>, TRotate(turn, t, v))
  IN  << W(<< hl, hw, hh >>), W(<< hl, hw, -hh >>),
         W(<< hl, -hw, hh >>), W(<< hl, -hw, -hh >>),
         W(<< -hl, hw, hh >>), W(<< -hl, hw, -hh >>),
         W(<< -hl, -hw, hh >>), W(<< -hl, -hw, -hh >>) >>

\* get_face_normal without the division by the length: a positive factor
\* on the axis changes no comparison of two projections on it.
tilt_get_face_normal(face_vertices) ==
  TCross(TSub(face_vertices[2], face_vertices[1]),
         TSub(face_vertices[3], face_vertices[1]))

tilt_get_face_edges(f) ==
  << TSub(f[2], f[1]), TSub(f[3], f[2]), TSub(f[4], f[3]), TSub(f[1], f[4]) >>

\* (round(normal.x, 3), round(normal.y, 3), round(normal.z, 3)) of the
\* normalized axis: the e part rounds away, and -0.0 == 0.0 in a Python set.
RoundedKey(axis) == Normalized(axis[1])

\* cross.length > 0.001: a cross product whose length is a multiple of e
\* is dropped.
TCrossKept(cross) == CrossKept(cross[1])

\* all_normals in list order: normals1, normals2, then the cross products
\* in the order of the four nested loops (faces i, faces j, edge1, edge2).
\* A dropped cross product is the empty tuple.
AllNormals(vertices1, vertices2) ==
  LET faces1 == get_block_faces(vertices1)
      faces2 == get_block_faces(vertices2)
      E1 == [f \in 1..6 |-> tilt_get_face_edges(faces1[f])]
      E2 == [f \in 1..6 |-> tilt_get_face_edges(faces2[f])]
      EdgeNormal(n) ==
        LET fi == (n \div 96) + 1
            fj == ((n \div 16) % 6) + 1
            a  == ((n \div 4) % 4) + 1
            b  == (n % 4) + 1
            cross == TCross(E1[fi][a], E2[fj][b])
        IN  IF TCrossKept(cross) THEN cross ELSE << >>
  IN  [k \in 1..588 |->
         IF k <= 6 THEN tilt_get_face_normal(faces1[k])
         ELSE IF k <= 12 THEN tilt_get_face_normal(faces2[k - 6])
         ELSE EdgeNormal(k - 13)]

\* unique_normals: of the axes with one rounded key the first in list
\* order is kept.
UniqueNormals(all) ==
  LET Key(k) == IF all[k] = << >> THEN << >> ELSE RoundedKey(all[k])
      Unique(k) == Key(k) # << >> /\ \A j \in 1..(k - 1) : Key(j) # Key(k)
  IN  {all[k] : k \in {n \in 1..Len(all) : Unique(n)}}

tilt_get_all_separating_axes(vertices1, vertices2) ==
  UNION {UniqueNormals(all) : all \in {AllNormals(vertices1, vertices2)}}

tilt_project_vertices(vertices, axis) ==
  LET P == {TDot(vertices[k], axis) : k \in 1..Len(vertices)}
  IN  << CHOOSE lo \in P : \A q \in P : TLeq(lo, q),
         CHOOSE hi \in P : \A q \in P : TLeq(q, hi) >>

\* script.py separating_axis_theorem on tilted boxes.
tilt_separating_axis_theorem(vertices1, vertices2) ==
  LET normals == tilt_get_all_separating_axes(vertices1, vertices2)
  IN  ~ \E normal \in normals :
          LET p1 == tilt_project_vertices(vertices1, normal)
              p2 == tilt_project_vertices(vertices2, normal)
          IN  TLeq(p1[2], p2[1]) \/ TLeq(p2[2], p1[1])

\* utils/collision_check.py separating_axis_theorem on tilted boxes.
tilt_core_separating_axis_theorem(vertices1, vertices2) ==
  LET normals == tilt_get_all_separating_axes(vertices1, vertices2)
  IN  ~ \E normal \in normals :
          LET p1 == tilt_project_vertices(vertices1, normal)
              p2 == tilt_project_vertices(vertices2, normal)
          IN  TLess(p1[2], p2[1]) \/ TLess(p2[2], p1[1])

\* ------------------------------------------------ random draws drawn --
\* np.random.uniform(-1, 1) twice: sample points of [-1, 1) x [-1, 1).  With
\* cell edges on multiples of 4, (0, 0) and (-4, 0) are centred on a cell
\* corner (and touch each other), (6, 2) is centred on a cell.
GroundPoints == { <<0, 0>>, <<-4, 0>>, <<6, 2>> }
\* np.random.uniform(-resolution, resolution)
Jitters == {j \in (-JitterSpan)..JitterSpan : -Res <= j /\ j < Res}
\* random.choice(rot_range), as (0, 0, yaw)
Rotations == {<<0, 0, k>> : k \in 0..Min2(3, MaxRot)}
\* random.randint(2, 5)
PedNums == PedLo..Min2(PedHi, PedLo + PedSpan)

\* ------------------------------------------- get_valid_positions --
\* The cells the stacked scan emits a candidate for, in scan order (gx
\* outer, gy inner): script.py tests height != 0 only.
ScanCells(self) ==
  LET all == [k \in 1..(self.grid_x * self.grid_y) |->
                 << (k - 1) \div self.grid_y, (k - 1) % self.grid_y >>]
  IN  SelectSeq(all, LAMBDA c : self.height[c] # 0)

\* script.py get_valid_positions; draws is the list of uniform pairs the
\* call consumes: GroundCount points with the flag set, one jitter pair
\* per scanned cell otherwise.
get_valid_positions(self, size, flag, draws) ==
  IF flag = 1
  THEN [k \in 1..GroundCount |-> << draws[k][1], draws[k][2], 0 >>]
  ELSE LET cells == ScanCells(self)
       IN  [k \in 1..Len(cells) |->
              LET w == grid_to_world(self, cells[k][1], cells[k][2])
              IN  << w[1] + draws[k][1], w[2] + draws[k][2],
                     self.height[cells[k]] >>]

\* core/heightmap.py get_valid_positions.  With the flag unset the first
\* cell whose occupancy is in [0.5, 1.0) makes grid_to_world overwrite the
\* loop variables x, y with floats, and self.height[x, y] raises
\* IndexError; without such a cell the list stays empty.
core_get_valid_positions(self, size, flag, draws) ==
  IF flag = 1
  THEN [cands |-> [k \in 1..GroundCount |->
                     << draws[k][1], draws[k][2], CoreBaseZ >>],
        error |-> ""]
  ELSE [cands |-> << >>,
        error |-> IF \E c \in DOMAIN self.occupancy :
                        /\ 2 * self.occupancy[c] >= self.resolution * self.resolution
                        /\ self.occupancy[c] < self.resolution * self.resolution
                  THEN "IndexError" ELSE ""]

\* The draws a call of get_valid_positions can consume.
DrawsFor(self, flag) ==
  IF flag = 1 THEN [1..GroundCount -> GroundPoints]
  ELSE [1..Len(ScanCells(self)) -> Jitters \X Jitters]

\* A faulty removal that pops the head of the list whatever was chosen.
ListRemoveHead(list, v) == Tail(list)

\* list.remove(v): the list without its first element equal to v.
RECURSIVE ListRemove(_, _)
ListRemove(list, v) ==
  IF list = << >> THEN << >>
  ELSE IF Head(list) = v THEN Tail(list)
  ELSE << Head(list) >> \o ListRemove(Tail(list), v)

\* ------------------------------------------------------------ state --
VARIABLES
  hm,               \* the Heightmap object
  blocks_data,      \* generate_blocks_data: the committed block records
  size_dic,         \* generate_blocks_data: remaining count per size
  ped_num,          \* generate_blocks_data: number of pedestal blocks
  i,                \* generate_blocks_data: loop index
  pc,               \* control point, see below
  cur,              \* the arguments of the running get_block_position
  valid_positions,  \* get_block_position: the remaining candidates
  position,         \* get_block_position: the value returned
  err,              \* the exception that ended the run, "" for none
  \* history of the running (or last) get_block_position invocation
  cands,            \* the list get_valid_positions returned
  gvp_calls,        \* number of get_valid_positions calls
  tested,           \* candidates passed to check_block_collision, in order
  upd_calls,        \* arguments of the update_height calls
  hm0,              \* the heightmap when the invocation (or call) started
  blocks0,          \* existing_blocks when the invocation started
  \* direct calls of Heightmap methods
  api,              \* the last call: method, arguments, result
  api_calls         \* number of direct calls made

vars == << hm, blocks_data, size_dic, ped_num, i, pc, cur, valid_positions,
           position, err, cands, gvp_calls, tested, upd_calls, hm0, blocks0,
           api, api_calls >>

planner_vars == << blocks_data, size_dic, ped_num, i, pc, cur, valid_positions,
                   position, err, cands, gvp_calls, tested, upd_calls, blocks0 >>

\* pc: "start"    generate_blocks_data entered, ped_num not drawn yet
\*     "loop"     at the head of the for loop
\*     "choose"   in get_block_position's while loop, candidates left
\*     "returned" get_block_position returned position
\*     "done"     generate_blocks_data returned blocks_data
\*     "raised"   an exception left generate_blocks_data (err says which)
NoCall == [size |-> << >>, flag |-> 0, rot |-> << >>]
NoApi == [op |-> "none"]

PlannerWidth == GridCells * Res

InitPlanner ==
  /\ blocks_data = << >>
  /\ size_dic = [z \in SIZES |-> IF z = SizeTall THEN 8 ELSE 9]
  /\ ped_num = 0
  /\ i = 0
  /\ cur = NoCall
  /\ valid_positions = << >>
  /\ position = << >>
  /\ err = ""
  /\ cands = << >>
  /\ gvp_calls = 0
  /\ tested = << >>
  /\ upd_calls = << >>
  /\ blocks0 = << >>

\* main(): heightmap = Heightmap(20, 20, 0.5), then generate_blocks_data.
Init ==
  /\ hm = Heightmap(PlannerWidth, PlannerWidth, Res)
  /\ hm0 = hm
  /\ pc = "start"
  /\ api = NoApi
  /\ api_calls = 0
  /\ InitPlanner

\* ped_num = random.randint(2, 5)
Begin ==
  /\ pc = "start"
  /\ \E n \in PedNums : ped_num' = n
  /\ pc' = "loop"
  /\ UNCHANGED << hm, blocks_data, size_dic, i, cur, valid_positions, position,
                  err, cands, gvp_calls, tested, upd_calls, hm0, blocks0,
                  api, api_calls >>

\* get_block_position up to its while loop: one get_valid_positions call,
\* and ValueError at once when the list is empty.
EnterGetBlockPosition(size, flag, new_rot, draws) ==
  LET vp == get_valid_positions(hm, size, flag, draws)
  IN  /\ cur' = [size |-> size, flag |-> flag, rot |-> new_rot]
      /\ valid_positions' = vp
      /\ cands' = vp
      /\ gvp_calls' = 1
      /\ tested' = << >>
      /\ upd_calls' = << >>
      /\ hm0' = hm
      /\ blocks0' = blocks_data
      /\ position' = << >>
      /\ IF vp = << >>
         THEN pc' = "raised" /\ err' = "No valid positions available"
         ELSE pc' = "choose" /\ err' = ""
      /\ UNCHANGED << hm, blocks_data, size_dic, ped_num, i, api, api_calls >>

\* for i in range(num_blocks), i < ped_num: a pedestal block.
PlacePedestal ==
  /\ pc = "loop"
  /\ i < ped_num
  /\ \E new_rotation \in Rotations, draws \in DrawsFor(hm, 1) :
        EnterGetBlockPosition(SizeTall, 1, new_rotation, draws)

\* A faulty upper branch that asks for a ground-level position.
PlaceUpperOnGround ==
  /\ pc = "loop"
  /\ i >= ped_num
  /\ \E new_size \in {z \in SIZES : size_dic[z] > 0},
        new_rotation \in Rotations, draws \in DrawsFor(hm, 1) :
        EnterGetBlockPosition(new_size, 1, new_rotation, draws)

\* for i in range(num_blocks), i >= ped_num: a stacked block.
PlaceStacked ==
  /\ pc = "loop"
  /\ i >= ped_num
  /\ \E new_size \in {z \in SIZES : size_dic[z] > 0},
        new_rotation \in Rotations, draws \in DrawsFor(hm, 0) :
        EnterGetBlockPosition(new_size, 0, new_rotation, draws)

\* A faulty acceptance test that takes the first candidate drawn.
AcceptsAll(existing_blocks, cand, size, new_rot) == TRUE

\* if not collisiondetector.check_block_collision(existing_blocks, ...)
Accepts(existing_blocks, cand, size, new_rot) ==
  ~check_block_collision(existing_blocks, cand, size, new_rot)

\* One turn of the while loop: random.choice, remove, check_block_collision;
\* then update_height and return, or the next turn, or ValueError when the
\* list has run out.
TryCandidateFrom(choices) ==
  /\ pc = "choose"
  /\ \E k \in choices :
        LET cand == valid_positions[k]
            rest == ListRemove(valid_positions, cand)
            upd == update_height(hm, cand, cur.size, cur.rot,
                                 << MinRatioNum, MinRatioDen >>)
        IN  /\ valid_positions' = rest
            /\ tested' = Append(tested, cand)
            /\ IF Accepts(blocks_data, cand, cur.size, cur.rot)
               THEN /\ hm' = upd.hm
                    /\ upd_calls' = Append(upd_calls, << cand, cur.size, cur.rot >>)
                    /\ IF upd.error
                       THEN pc' = "raised" /\ err' = "IndexError"
                                           /\ position' = position
                       ELSE pc' = "returned" /\ err' = err /\ position' = cand
               ELSE /\ UNCHANGED << hm, upd_calls, position >>
                    /\ IF rest = << >>
                       THEN pc' = "raised" /\ err' = "No valid position found"
                       ELSE pc' = "choose" /\ err' = err
  /\ UNCHANGED << blocks_data, size_dic, ped_num, i, cur, cands, gvp_calls,
                  hm0, blocks0, api, api_calls >>

\* random.choice(valid_positions) draws any element of the list.
TryCandidate == TryCandidateFrom(1..Len(valid_positions))

\* A faulty append that starts the list anew with the record.
list_append_anew(list, record) == << record >>

\* blocks_data.append(block_data)
list_append(list, record) == Append(list, record)

\* The rest of the loop body: the record is built, the size count is
\* decremented and the record appended.  get_block_position's frame is gone
\* by then, so its locals and the invocation's history are cleared.  The
\* colour and the material of the record, and color_dic, take no part in
\* the placement and are left out of the record.
AppendBlockOf(num_blocks) ==
  /\ pc = "returned"
  /\ blocks_data' = list_append(blocks_data,
                                [index |-> i, size |-> cur.size,
                                 position |-> position, rotation |-> cur.rot])
  /\ size_dic' = [size_dic EXCEPT ![cur.size] = @ - 1]
  /\ i' = i + 1
  /\ pc' = IF i + 1 < num_blocks THEN "loop" ELSE "done"
  /\ cur' = NoCall
  /\ valid_positions' = << >>
  /\ position' = << >>
  /\ cands' = << >>
  /\ gvp_calls' = 0
  /\ tested' = << >>
  /\ upd_calls' = << >>
  /\ hm0' = hm
  /\ blocks0' = << >>
  /\ UNCHANGED << hm, ped_num, err, api, api_calls >>

AppendBlock == AppendBlockOf(NumBlocks)

Next == Begin \/ PlacePedestal \/ PlaceStacked \/ TryCandidate \/ AppendBlock

Spec == Init /\ [][Next]_vars

\* ------------------------------------------------- planner properties --
Verts(block) == get_block_vertices(block.position, block.size, block.rotation)

\* The candidate c of the invocation under way collides with no block of
\* the list the invocation was given (the test of check_block_collision,
\* new block first, spelled out block by block).
Free(c) ==
  \A k \in 1..Len(blocks0) :
     ~separating_axis_theorem(get_block_vertices(c, cur.size, cur.rot),
                              Verts(blocks0[k]))

NoValidPosition ==
  /\ pc = "raised"
  /\ err \in {"No valid positions available", "No valid position found"}

Count(list, v) == Cardinality({k \in 1..Len(list) : list[k] = v})

SameBag(s, t) == \A v \in Range(s) \cup Range(t) : Count(s, v) = Count(t, v)

\* C1: no interpenetration.  Whenever the committed list has just grown (or
\* the generation is over), the separating-axis test reports no collision
\* for every ordered pair of distinct committed blocks, so in either
\* argument order.  The list changes in AppendBlock only, which leads to
\* "loop" or "done".
C1_NoInterpenetration ==
  pc \in {"loop", "done"} =>
    \A a, b \in 1..Len(blocks_data) :
       a # b => ~separating_axis_theorem(Verts(blocks_data[a]),
                                         Verts(blocks_data[b]))

\* Three blocks are committed, one of them resting on another.
C1_Witness ==
  /\ pc \in {"loop", "done"}
  /\ Len(blocks_data) >= 3
  /\ \E a \in 1..Len(blocks_data) : blocks_data[a].position[3] > 0

\* C2: when get_block_position returns a position, the position is one of
\* the candidates of the invocation's single get_valid_positions call, it
\* collides with none of the existing blocks, and update_height was called
\* exactly once, with that position and the invocation's size and rotation,
\* the heightmap being the result of that one call.
C2_ReturnedPosition ==
  pc = "returned" =>
    /\ gvp_calls = 1
    /\ position \in Range(cands)
    /\ Free(position)
    /\ upd_calls = << << position, cur.size, cur.rot >> >>
    /\ hm = update_height(hm0, position, cur.size, cur.rot,
                          << MinRatioNum, MinRatioDen >>).hm

\* A position is returned after an earlier candidate collided.
C2_Witness ==
  /\ pc = "returned"
  /\ Len(tested) >= 2
  /\ Len(blocks_data) >= 1

\* C3, for get_block_position of script.py: an invocation that is over has
\* failed with a no-valid-position error exactly when none of its
\* candidates is collision-free, and then update_height was not called and
\* the heightmap and the block list are as they were.
C3_Script ==
  pc \in {"returned", "raised"} =>
    /\ NoValidPosition <=> (\A k \in 1..Len(cands) : ~Free(cands[k]))
    /\ NoValidPosition =>
          upd_calls = << >> /\ hm = hm0 /\ blocks_data = blocks0

\* All five ground candidates collided with a committed block.
C3_Script_Exhausted ==
  /\ NoValidPosition
  /\ err = "No valid position found"
  /\ Len(tested) = GroundCount

\* The candidate list of a stacked block was empty.
C3_Script_Empty ==
  /\ NoValidPosition
  /\ err = "No valid positions available"
  /\ cur.flag = 0

\* C4: every get_block_position invocation comes to an end, returning or
\* raising, after at most as many collision tests as there were
\* candidates.  Candidates are drawn without replacement: the tested and
\* the remaining candidates together are the initial list; while the loop
\* runs a candidate is left to draw; each turn tests one candidate and
\* shortens the list by exactly one; the loop goes on only after a
\* collision.  The length of the list is the variant that ends the loop.
C4_Drawn ==
  /\ SameBag(tested \o valid_positions, cands)
  /\ Len(tested) + Len(valid_positions) = Len(cands)
  /\ pc = "choose" => Len(valid_positions) > 0

C4_Turn ==
  pc = "choose" =>
    /\ Len(valid_positions') = Len(valid_positions) - 1
    /\ Len(tested') = Len(tested) + 1
    /\ pc' \in {"choose", "returned", "raised"}
    /\ pc' = "choose" => ~Free(tested'[Len(tested')])

C4_Terminates == []C4_Drawn /\ [][C4_Turn]_vars

\* A position is returned by the last of five candidates, the four before
\* it having collided.
C4_Witness ==
  /\ pc = "returned"
  /\ Len(cands) = GroundCount
  /\ Len(tested) = GroundCount
  /\ valid_positions = << >>

\* C5: a position is returned (committed) only if some grid cell is
\* covered by the footprint with ratio >= min_ratio, so that the commit
\* raises at least one cell.
C5_SupportBeforeCommit ==
  pc = "returned" =>
    /\ \E c \in DOMAIN hm0.height :
          Qualifies(hm0, c[1], c[2],
                    PolyBounds(get_polygon(position, cur.size, cur.rot)),
                    << MinRatioNum, MinRatioDen >>)
    /\ \E c \in DOMAIN hm0.height : hm.height[c] > hm0.height[c]

\* ------------------------------------------------------ direct calls --
\* Calls of the Heightmap and Scene methods from outside the planner.  The
\* widths are 2.0 and 2.25 world units, the second no multiple of the
\* resolution; the positions put footprints inside the grid, across cell
\* edges and across each edge of the grid.
ApiWidths == {16, 18}
ApiXs == {-10, -9, 0, 1, 2, 10}
ApiYs == {2, 8}
ApiZs == {0, 12}
ApiPositions == ApiXs \X ApiYs \X ApiZs
MinRatios == { << MinRatioNum, MinRatioDen >>, << CoreMinRatioNum, CoreMinRatioDen >> }
QueryCoords == (-QueryReach)..QueryReach

\* Scene.get_block_position (scene.py): get_valid_positions(self, size, flag)
\* is called without flag, which raises TypeError before a candidate
\* exists (the loop, never reached, calls self.collision_check, which Scene
\* does not define).
scene_get_block_position(self, size) ==
  [cands |-> << >>, position |-> << >>, error |-> "TypeError"]

InitApi ==
  /\ \E w \in ApiWidths : hm = Heightmap(w, SetMin(ApiWidths), Res)
  /\ hm0 = hm
  /\ pc = "api"
  /\ api = NoApi
  /\ api_calls = 0
  /\ InitPlanner

\* heightmap.update_height(position, size, rotation, min_ratio) of script.py
ApiUpdateHeight ==
  /\ pc = "api"
  /\ api_calls < MaxCalls
  /\ \E p \in ApiPositions, size \in SIZES, rot \in Rotations, mr \in MinRatios :
        LET r == update_height(hm, p, size, rot, mr)
        IN  /\ hm' = r.hm
            /\ api' = [op |-> "update_height", position |-> p, size |-> size,
                       rotation |-> rot, min_ratio |-> mr,
                       error |-> IF r.error THEN "IndexError" ELSE ""]
  /\ hm0' = hm
  /\ api_calls' = api_calls + 1
  /\ UNCHANGED planner_vars

\* heightmap.update_height(position, size, rotation, min_ratio) of
\* core/heightmap.py
ApiCoreUpdateHeight ==
  /\ pc = "api"
  /\ api_calls < MaxCalls
  /\ \E p \in ApiPositions, size \in SIZES, rot \in Rotations, mr \in MinRatios :
        LET r == core_update_height(hm, p, size, rot, mr)
        IN  /\ hm' = r.hm
            /\ api' = [op |-> "core.update_height", position |-> p,
                       size |-> size, rotation |-> rot, min_ratio |-> mr,
                       error |-> IF r.error THEN "TypeError" ELSE ""]
  /\ hm0' = hm
  /\ api_calls' = api_calls + 1
  /\ UNCHANGED planner_vars

\* scene.get_block_position(new_block)
ApiSceneGetBlockPosition ==
  /\ pc = "api"
  /\ api_calls < MaxCalls
  /\ \E size \in SIZES :
        LET r == scene_get_block_position(hm, size)
        IN  api' = [op |-> "Scene.get_block_position", size |-> size,
                    cands |-> r.cands, position |-> r.position,
                    error |-> r.error]
  /\ hm0' = hm
  /\ api_calls' = api_calls + 1
  /\ UNCHANGED << hm, planner_vars >>

NextApi == ApiUpdateHeight \/ ApiCoreUpdateHeight \/ ApiSceneGetBlockPosition

SpecApi == InitApi /\ [][NextApi]_vars

\* Draws of direct get_valid_positions calls: the ends of the ranges of
\* np.random.uniform(-1, 1) and, for core/heightmap.py, (-2.5, 2.5), in
\* alternation; one jitter pair for all scanned cells.
GroundEnds ==
  { << -GroundHalf, -GroundHalf >>, << GroundHalf - 1, GroundHalf - 1 >> }
CoreGroundEnds ==
  { << -CoreGroundHalf, -CoreGroundHalf >>,
    << CoreGroundHalf - 1, CoreGroundHalf - 1 >> }
JitterPairs == { <<-1, 0>>, <<0, 1>> }
AlternateDraws(ends) ==
  {[k \in 1..GroundCount |-> IF k % 2 = 1 THEN p ELSE q] :
     p \in ends, q \in ends}
ApiDrawsFor(self, flag) ==
  IF flag = 1 THEN AlternateDraws(GroundEnds)
  ELSE {[k \in 1..Len(ScanCells(self)) |-> j] : j \in JitterPairs}

\* heightmap.get_valid_positions(size, flag) of script.py
ApiGetValidPositions ==
  /\ pc = "api"
  /\ api.op # "get_valid_positions"
  /\ \E size \in SIZES, flag \in {0, 1} :
        \E draws \in ApiDrawsFor(hm, flag) :
          api' = [op |-> "get_valid_positions", size |-> size, flag |-> flag,
                  result |-> get_valid_positions(hm, size, flag, draws),
                  error |-> ""]
  /\ UNCHANGED << hm, hm0, api_calls, planner_vars >>

\* heightmap.get_valid_positions(size, flag) of core/heightmap.py, on a
\* heightmap as constructed (its update_height never writes a cell).
ApiCoreGetValidPositions ==
  /\ pc = "api"
  /\ api = NoApi
  /\ \E size \in SIZES, flag \in {0, 1} :
        \E draws \in IF flag = 1 THEN AlternateDraws(CoreGroundEnds)
                                 ELSE {<< >>} :
          LET r == core_get_valid_positions(hm, size, flag, draws)
          IN  api' = [op |-> "core.get_valid_positions", size |-> size,
                      flag |-> flag, result |-> r.cands, error |-> r.error]
  /\ UNCHANGED << hm, hm0, api_calls, planner_vars >>

NextScan ==
  ApiUpdateHeight \/ ApiGetValidPositions \/ ApiCoreGetValidPositions

SpecScan == InitApi /\ [][NextScan]_vars

\* -------------------------------------------------- seeded replay --
\* Two sessions of script.py started from the same SEED.  The generators
\* random and np.random are seeded once at import; the n-th output of a
\* generator is a fixed function of the seed and n (any such function
\* serves; this one spreads the draws over their ranges).  A session is
\* its heightmap, its block list, the number of outputs it has consumed of
\* each generator, and entropy: whatever else differs between two runs
\* of the process (time, addresses, hash salt).
Stream(seed, n) == ((seed + 5 * n) * (n + 3) + n * n) % 97
NpRandom(n) == Stream(SEED, 2 * n)
PyRandom(n) == Stream(SEED, 2 * n + 1)

Session(entropy) ==
  [hm |-> Heightmap(PlannerWidth, PlannerWidth, Res), blocks |-> << >>,
   np_pos |-> 0, py_pos |-> 0, entropy |-> entropy]

\* np.random.uniform(lo, hi), the k-th draw from now.
np_random_uniform(run, k, lo, hi) ==
  lo + (NpRandom(run.np_pos + k) % (hi - lo))

\* A faulty random.choice that mixes unseeded state into the index.
random_choice_unseeded(run, k, list) ==
  list[((PyRandom(run.py_pos + k) + run.entropy) % Len(list)) + 1]

\* random.choice(list), the k-th draw from now.
random_choice(run, k, list) ==
  list[(PyRandom(run.py_pos + k) % Len(list)) + 1]

\* The uniform pairs a get_valid_positions call draws, in call order.
SeededDraws(run, flag) ==
  IF flag = 1
  THEN [k \in 1..GroundCount |->
          << np_random_uniform(run, 2 * k - 2, -GroundHalf, GroundHalf),
             np_random_uniform(run, 2 * k - 1, -GroundHalf, GroundHalf) >>]
  ELSE [k \in 1..Len(ScanCells(run.hm)) |->
          << np_random_uniform(run, 2 * k - 2, -Res, Res),
             np_random_uniform(run, 2 * k - 1, -Res, Res) >>]

\* heightmap.get_valid_positions(size, flag) in a session.
seeded_get_valid_positions(run, size, flag) ==
  LET vp ==
        get_valid_positions(run.hm, size, flag, SeededDraws(run, flag))
  IN  [run |-> [run EXCEPT !.np_pos = @ + 2 * Len(vp)],
       cands |-> vp]

\* The while loop of get_block_position after k turns.
RECURSIVE ChooseLoop(_, _, _, _, _)
ChooseLoop(run, vp, k, size, new_rot) ==
  IF vp = << >>
  THEN [run |-> [run EXCEPT !.py_pos = @ + k], position |-> << >>,
        error |-> "No valid position found"]
  ELSE LET cand == random_choice(run, k, vp)
           rest == ListRemove(vp, cand)
           upd == update_height(run.hm, cand, size, new_rot,
                                << MinRatioNum, MinRatioDen >>)
       IN  IF Accepts(run.blocks, cand, size, new_rot)
           THEN [run |-> [run EXCEPT !.hm = upd.hm, !.py_pos = @ + k + 1],
                 position |-> IF upd.error THEN << >> ELSE cand,
                 error |-> IF upd.error THEN "IndexError" ELSE ""]
           ELSE ChooseLoop(run, rest, k + 1, size, new_rot)

\* get_block_position(existing_blocks, heightmap, collisiondetector, size,
\* flag, new_rot) in a session, and the append of the placed block by
\* its caller.
get_block_position(run, size, flag, new_rot) ==
  LET g == seeded_get_valid_positions(run, size, flag)
      r == ChooseLoop(g.run, g.cands, 0, size, new_rot)
      placed == [r.run EXCEPT !.blocks =
                   Append(@, [index |-> Len(@), size |-> size,
                              position |-> r.position, rotation |-> new_rot])]
  IN  IF g.cands = << >>
      THEN [run |-> g.run, cands |-> << >>, position |-> << >>,
            error |-> "No valid positions available"]
      ELSE [run |-> IF r.error = "" THEN placed ELSE r.run,
            cands |-> g.cands, position |-> r.position, error |-> r.error]

InitReplay ==
  /\ hm = Heightmap(PlannerWidth, PlannerWidth, Res)
  /\ hm0 = hm
  /\ pc = "api"
  /\ api = [op |-> "replay", runs |-> << Session(0), Session(1) >>,
            results |-> << >>]
  /\ api_calls = 0
  /\ InitPlanner

\* The same get_valid_positions call in both sessions.
ReplayGetValidPositions ==
  /\ pc = "api"
  /\ api_calls < ReplayCalls
  /\ \E size \in SIZES, flag \in {0, 1} :
        LET g == [n \in 1..2 |->
                    seeded_get_valid_positions(api.runs[n], size, flag)]
        IN  api' = [op |-> "replay",
                    runs |-> << g[1].run, g[2].run >>,
                    results |-> [n \in 1..2 |->
                                   [cands |-> g[n].cands, position |-> << >>,
                                    error |-> ""]]]
  /\ api_calls' = api_calls + 1
  /\ UNCHANGED << hm, hm0, planner_vars >>

\* The same get_block_position call in both sessions.
ReplayGetBlockPosition ==
  /\ pc = "api"
  /\ api_calls < ReplayCalls
  /\ \E size \in SIZES, flag \in {0, 1}, new_rot \in Rotations :
        LET r == [n \in 1..2 |->
                    get_block_position(api.runs[n], size, flag, new_rot)]
        IN  api' = [op |-> "replay",
                    runs |-> << r[1].run, r[2].run >>,
                    results |-> [n \in 1..2 |->
                                   [cands |-> r[n].cands,
                                    position |-> r[n].position,
                                    error |-> r[n].error]]]
  /\ api_calls' = api_calls + 1
  /\ UNCHANGED << hm, hm0, planner_vars >>

NextReplay == ReplayGetValidPositions \/ ReplayGetBlockPosition

SpecReplay == InitReplay /\ [][NextReplay]_vars

\* --------------------------------------------------------- scenes --
\* core/scene.py.  heap is the list of Heightmap objects that exist; a
\* Scene holds the index of the object its attribute heightmap resolves
\* to.  `heightmap = Heightmap(...)` stands in the class body, so the
\* one object made when the class is defined is what self.heightmap is
\* in every instance.  users[o] is the set of scenes whose methods have
\* called a method of heap[o].
ClassHeightmap == 1

\* Scene(): no __init__, no heightmap of its own.
Scene ==
  [heightmap |-> ClassHeightmap, blocks |-> << >>, error |-> ""]

\* reset_tower: the blocks are deleted and cleared; the heightmap is left
\* as it is.
reset_tower(scene) == [scene EXCEPT !.blocks = << >>, !.error = ""]

\* build_tower of scene number s.  After reset_tower the first block is
\* added and generated, then self.get_block_position applies
\* get_valid_positions to self.heightmap and raises TypeError; line 95
\* (update_height) is not reached.
build_tower(world, s, data_list) ==
  LET scene == reset_tower(world.scenes[s])
      o == scene.heightmap
      data == data_list[1]
      new_block == [index |-> 0, size |-> data.size, position |-> <<0, 0, 0>>,
                    rotation |-> data.rotation, blender_object |-> TRUE]
      r == scene_get_block_position(world.heap[o], data.size)
  IN  IF data_list = << >>
      THEN [world EXCEPT !.scenes[s] = scene,
                         !.fresh = (world.heap[o] = Heightmap(PlannerWidth, PlannerWidth, Res))]
      ELSE [world EXCEPT !.scenes[s] = [scene EXCEPT !.blocks = << new_block >>,
                                                     !.error = r.error],
                         !.users[o] = @ \cup {s},
                         !.fresh = (world.heap[o] = Heightmap(PlannerWidth, PlannerWidth, Res))]

\* blocks_data of generate_blocks_data: up to two records.
BlockData == {[size |-> z, rotation |-> r] : z \in SIZES, r \in Rotations}
BlocksData ==
  {<< >>} \cup {<<b>> : b \in BlockData}
          \cup {<<b, c>> : b \in BlockData, c \in BlockData}

InitScene ==
  /\ hm = Heightmap(PlannerWidth, PlannerWidth, Res)
  /\ hm0 = hm
  /\ pc = "api"
  /\ api = [op |-> "scene", heap |-> << hm >>, scenes |-> << >>,
            users |-> << {} >>, fresh |-> TRUE, built |-> << >>]
  /\ api_calls = 0
  /\ InitPlanner

\* scene = Scene() (initialize_scene)
SceneNew ==
  /\ pc = "api"
  /\ Len(api.scenes) < MaxScenes
  /\ api' = [api EXCEPT !.scenes = Append(@, Scene)]
  /\ UNCHANGED << hm, hm0, api_calls, planner_vars >>

\* scene.build_tower(blocks_data)
SceneBuildTower ==
  /\ pc = "api"
  /\ api_calls < MaxCalls
  /\ \E s \in 1..Len(api.scenes), data_list \in BlocksData :
        api' = [build_tower(api, s, data_list) EXCEPT !.built = Append(@, s)]
  /\ api_calls' = api_calls + 1
  /\ UNCHANGED << hm, hm0, planner_vars >>

NextScene == SceneNew \/ SceneBuildTower

SpecScene == InitScene /\ [][NextScene]_vars

\* The blocks of scene.blocks that check_block_collision(scene, ...) compares
\* the candidate with: "for block in scene.blocks" passes over a block
\* without blender_object and returns at the first collision.
scene_blocks_compared(scene_blocks, new_position, new_size, new_rotation) ==
  {k \in 1..Len(scene_blocks) :
      /\ scene_blocks[k].blender_object
      /\ ~core_check_block_collision(SubSeq(scene_blocks, 1, k - 1),
                                     new_position, new_size, new_rotation)}

\* The blocks of a scene whose placement loop (lines 88-98) has not set
\* placed: build_tower leaves the loop of the block added last by the
\* exception of get_block_position.
NotPlaced(scene) ==
  IF scene.error = "" THEN {} ELSE {Len(scene.blocks)}

NoCheck == [scene |-> 0]
CandidateXs == {0, 16}

InitPlace ==
  /\ hm = Heightmap(PlannerWidth, PlannerWidth, Res)
  /\ hm0 = hm
  /\ pc = "api"
  /\ api = [op |-> "scene", heap |-> << hm >>, scenes |-> << >>,
            users |-> << {} >>, fresh |-> TRUE, built |-> << >>,
            check |-> NoCheck]
  /\ api_calls = 0
  /\ InitPlanner

\* self.collision_detector.check_block_collision(self, position,
\* new_block.size, new_block.rotation) of line 90, for the block that line
\* 76 added to self.blocks and a candidate position, on a scene in which
\* build_tower has added a block.
SceneCheckBlockCollision ==
  /\ pc = "api"
  /\ \E s \in 1..Len(api.scenes), x \in CandidateXs :
        LET scene == api.scenes[s]
            new_block == scene.blocks[Len(scene.blocks)]
            p == <<x, 0, 0>>
        IN  /\ scene.blocks # << >>
            /\ api' = [api EXCEPT !.check =
                  [scene |-> s, position |-> p,
                   not_placed |-> NotPlaced(scene),
                   compared |-> scene_blocks_compared(
                       scene.blocks, p, new_block.size, new_block.rotation),
                   result |-> core_check_block_collision(
                       scene.blocks, p, new_block.size, new_block.rotation)]]
  /\ UNCHANGED << hm, hm0, api_calls, planner_vars >>

NextPlace == SceneNew \/ SceneBuildTower \/ SceneCheckBlockCollision

SpecPlace == InitPlace /\ [][NextPlace]_vars

InitGrid ==
  /\ \E w \in ApiWidths, d \in ApiWidths : hm = Heightmap(w, d, Res)
  /\ hm0 = hm
  /\ pc = "api"
  /\ api = NoApi
  /\ api_calls = 0
  /\ InitPlanner

\* heightmap.world_to_grid(x, y), and grid_to_world of its result
ApiWorldToGrid ==
  /\ pc = "api"
  /\ api = NoApi
  /\ \E x \in QueryCoords, y \in QueryCoords :
        LET g == world_to_grid(hm, x, y)
        IN  api' = [op |-> "world_to_grid", x |-> x, y |-> y, grid |-> g,
                    world |-> grid_to_world(hm, g[1], g[2])]
  /\ UNCHANGED << hm, hm0, api_calls, planner_vars >>

\* heightmap.get_height(x, y)
ApiGetHeight ==
  /\ pc = "api"
  /\ api = NoApi
  /\ \E x \in QueryCoords, y \in QueryCoords :
        api' = [op |-> "get_height", x |-> x, y |-> y,
                result |-> get_height(hm, x, y)]
  /\ UNCHANGED << hm, hm0, api_calls, planner_vars >>

NextGrid == ApiWorldToGrid \/ ApiGetHeight

SpecGrid == InitGrid /\ [][NextGrid]_vars

\* ------------------------------------------- direct-call properties --
UpdateCall == api.op \in {"update_height", "core.update_height"}

\* The bounds of the footprint of the last update_height call.
ApiFootprint == PolyBounds(get_polygon(api.position, api.size, api.rotation))

\* The grid cell c meets the threshold of the last update_height call.
ApiQualifies(c) == Qualifies(hm0, c[1], c[2], ApiFootprint, api.min_ratio)

\* C3, for Scene.get_block_position of scene.py: a call fails with a
\* no-valid-position error exactly when none of its candidates is
\* collision-free (the blocks of a Scene whose tower was reset are none, so
\* that only a call without candidates has no free one).
C3_FailsExactlyWhenNoFree ==
  api.op = "Scene.get_block_position" =>
    (api.error \in {"No valid positions available", "No valid position found"}
       <=> api.cands = << >>)

\* C6: no step lowers the stored height of a cell.
HeightsNotLowered ==
  \A c \in DOMAIN hm.height : hm'.height[c] >= hm.height[c]

C6_Monotone == [][HeightsNotLowered]_vars

\* A second update_height call has raised a cell that the first had raised.
C6_Witness ==
  /\ api.op = "update_height"
  /\ api_calls = 2
  /\ \E c \in DOMAIN hm.height :
        hm0.height[c] > 0 /\ hm.height[c] > hm0.height[c]

\* C7: an update_height call changes exactly the cells whose intersection
\* with the footprint, over the cell area, is >= min_ratio: such a cell
\* has a new height and the ratio stored, every other cell its old height
\* and ratio.
C7_ExactlyQualifying ==
  UpdateCall =>
    \A c \in DOMAIN hm.height :
       IF ApiQualifies(c)
       THEN /\ hm.height[c] # hm0.height[c]
            /\ hm.occupancy[c] = InterArea(CellOverlap(hm0, c[1], c[2], ApiFootprint))
       ELSE /\ hm.height[c] = hm0.height[c]
            /\ hm.occupancy[c] = hm0.occupancy[c]

\* C8: an update_height call raises every qualifying cell by exactly
\* size[2], whatever the z of the position.
C8_FullHeightOnce ==
  UpdateCall =>
    \A c \in DOMAIN hm.height :
       ApiQualifies(c) => hm.height[c] = hm0.height[c] + api.size[3]

\* Bounds of the grid and of its cells, width and depth being even.
InBounds(self, x, y) ==
  /\ -(self.width \div 2) <= x /\ x <= self.width \div 2
  /\ -(self.depth \div 2) <= y /\ y <= self.depth \div 2

InCells(self, x, y) ==
  /\ -(self.width \div 2) <= x
  /\ x < (self.grid_x * self.resolution) - (self.width \div 2)
  /\ -(self.depth \div 2) <= y
  /\ y < (self.grid_y * self.resolution) - (self.depth \div 2)

ValidIndex(self, g) ==
  /\ 0 <= g[1] /\ g[1] < self.grid_x
  /\ 0 <= g[2] /\ g[2] < self.grid_y

RoundTripClose(self) ==
  /\ Abs(api.x - api.world[1]) < self.resolution
  /\ Abs(api.y - api.world[2]) < self.resolution

\* C9 as stated: for every point within the bounds, the round trip is
\* within one resolution and world_to_grid gives a valid cell index.
C9_RoundTrip ==
  (api.op = "world_to_grid" /\ InBounds(hm, api.x, api.y)) =>
     RoundTripClose(hm) /\ ValidIndex(hm, api.grid)

\* C9, amended: for every point within the bounds the round trip is within
\* one resolution; world_to_grid gives a valid cell index for the points
\* with -width/2 <= x < -width/2 + grid_x * resolution (and the same in y),
\* which leaves out the upper edges, and the strip beyond the last cell
\* when the width is no multiple of the resolution.
C9_RoundTripInCells ==
  api.op = "world_to_grid" =>
    /\ InBounds(hm, api.x, api.y) => RoundTripClose(hm)
    /\ InCells(hm, api.x, api.y) => ValidIndex(hm, api.grid)

\* A point inside a cell, off its corner, so that truncation has acted.
C9_Witness ==
  /\ api.op = "world_to_grid"
  /\ InCells(hm, api.x, api.y)
  /\ api.x # api.world[1]
  /\ api.y # api.world[2]

\* C10: for every point outside the bounds get_height returns None.
C10_OutsideIsNone ==
  (api.op = "get_height" /\ ~InBounds(hm, api.x, api.y)) =>
     api.result = << >>

\* ------------------------------------------------- pairs of boxes --
\* Direct calls of separating_axis_theorem on the vertices of two boxes,
\* in both argument orders and with both detectors.  The first box is at
\* the origin; the second is moved through overlap, contact and gap on
\* each axis (y: 4 is contact of two short edges, z: 8 and 12 are contact
\* of a tall with a long and with a tall block).
SatYs == {0, 4, 5}
SatZs == {0, 8, 12}
SatPositions == ((-SatReach)..SatReach) \X SatYs \X SatZs
Box(p, size, rotation) ==
  [position |-> p, size |-> size, rotation |-> rotation]

InitSat ==
  /\ hm = Heightmap(PlannerWidth, PlannerWidth, Res)
  /\ hm0 = hm
  /\ pc = "api"
  /\ api = NoApi
  /\ api_calls = 0
  /\ InitPlanner

\* collisiondetector.separating_axis_theorem(vertices1, vertices2) and the
\* same with the arguments exchanged.
ApiSat ==
  /\ pc = "api"
  /\ api = NoApi
  /\ \E size1 \in SIZES, rot1 \in Rotations, p2 \in SatPositions,
        size2 \in SIZES, rot2 \in Rotations :
        LET v1 == get_block_vertices(<<0, 0, 0>>, size1, rot1)
            v2 == get_block_vertices(p2, size2, rot2)
        IN  api' = [op |-> "sat",
                    a |-> Box(<<0, 0, 0>>, size1, rot1),
                    b |-> Box(p2, size2, rot2),
                    ab |-> separating_axis_theorem(v1, v2),
                    ba |-> separating_axis_theorem(v2, v1),
                    core_ab |-> core_separating_axis_theorem(v1, v2),
                    core_ba |-> core_separating_axis_theorem(v2, v1)]
  /\ UNCHANGED << hm, hm0, api_calls, planner_vars >>

\* ------------------------------------- the run on main's heightmap --
\* generate_blocks_data on Heightmap(20, 20, 0.5), the heightmap of main,
\* for the first RowBlocks blocks.  The draws: a ground point at x = -1
\* (the low end of the range) or x = 0.875, centred on a row of cells in
\* y; the jitter of -resolution in x (the low end of the range) that
\* centres the block on the row in y; yaw 0; random.choice(valid_positions)
\* drawing the first element of the list.
MainWidth == 160
RowBlocks == 9
RowGroundPoints == { << -GroundHalf, Res \div 2 >>, << GroundHalf - 1, Res \div 2 >> }
RowJitters == { << -Res, Res \div 2 >> }

InitRow ==
  /\ hm = Heightmap(MainWidth, MainWidth, Res)
  /\ hm0 = hm
  /\ pc = "start"
  /\ api = NoApi
  /\ api_calls = 0
  /\ InitPlanner

RowPlacePedestal ==
  /\ pc = "loop"
  /\ i < ped_num
  /\ \E g \in RowGroundPoints :
        EnterGetBlockPosition(SizeTall, 1, <<0, 0, 0>>,
                              [k \in 1..GroundCount |-> g])

RowPlaceStacked ==
  /\ pc = "loop"
  /\ i >= ped_num
  /\ \E new_size \in {z \in SIZES : size_dic[z] > 0}, j \in RowJitters :
        EnterGetBlockPosition(new_size, 0, <<0, 0, 0>>,
                              [k \in 1..Len(ScanCells(hm)) |-> j])

RowTryCandidate == TryCandidateFrom({1})

RowAppendBlock == AppendBlockOf(RowBlocks)

NextRow ==
  Begin \/ RowPlacePedestal \/ RowPlaceStacked \/ RowTryCandidate
        \/ RowAppendBlock

SpecRow == InitRow /\ [][NextRow]_vars

\* ------------------------------------------- the budgets of a run --
\* generate_blocks_data with num_blocks = 17, color_dic and size_dic as in
\* the code.  The geometry is left out: whether get_block_position returns
\* or raises ValueError is an input of each iteration.
MainBlocks == 17
COLORS == {"yellow", "blue", "white"}
NoChoice == [color |-> "", size |-> << >>]

\* A faulty list of keys that keeps the keys whose count has run out.
ChoosableAll(dic) == DOMAIN dic

\* [key for key in dic.keys() if dic[key] > 0]
Choosable(dic) == {key \in DOMAIN dic : dic[key] > 0}

\* The dictionaries, and ped_num = random.randint(2, 5)
BudgetBegin ==
  /\ pc = "api"
  /\ api = NoApi
  /\ \E n \in PedLo..PedHi :
        api' = [op |-> "generate", ped_num |-> n, i |-> 0, error |-> "",
                color_dic |-> [c \in COLORS |->
                                 IF c = "yellow" THEN 7
                                 ELSE IF c = "blue" THEN 9 ELSE 1],
                size_dic |-> [z \in SIZES |-> IF z = SizeTall THEN 8 ELSE 9],
                last |-> NoChoice, color_before |-> 0, size_before |-> 0]
  /\ UNCHANGED << hm, hm0, api_calls, planner_vars >>

\* One iteration of "for i in range(num_blocks)": the size (forced for a
\* pedestal, else random.choice of the sizes left, IndexError on an empty
\* list), the colour (random.choice of the colours left), the position,
\* and, when get_block_position has returned, the two decrements.
BudgetBlock ==
  /\ pc = "api"
  /\ api.op = "generate"
  /\ api.error = ""
  /\ api.i < MainBlocks
  /\ LET sizes == IF api.i < api.ped_num THEN {SizeTall}
                  ELSE Choosable(api.size_dic)
         colors == Choosable(api.color_dic)
     IN  IF sizes = {} \/ colors = {}
         THEN api' = [api EXCEPT !.error = "IndexError"]
         ELSE \E new_size \in sizes, color \in colors, returned \in BOOLEAN :
                 IF ~returned
                 THEN api' = [api EXCEPT !.error = "ValueError"]
                 ELSE api' = [api EXCEPT
                        !.color_dic[color] = @ - 1,
                        !.size_dic[new_size] = @ - 1,
                        !.last = [color |-> color, size |-> new_size],
                        !.color_before = api.color_dic[color],
                        !.size_before = api.size_dic[new_size],
                        !.i = @ + 1]
  /\ UNCHANGED << hm, hm0, api_calls, planner_vars >>

NextBudget == BudgetBegin \/ BudgetBlock

SpecBudget == InitSat /\ [][NextBudget]_vars

\* --------------------------------------------- blender_ops.py: the verdict --
\* is_block_hitting_ground(loc): False without the object "PhysicsGround",
\* else the success of ground.ray_cast from 10 above loc straight down.
\* The ray cast is Blender's; its outcome for a block is an input.
is_block_hitting_ground(ground, ray_success) ==
  IF ~ground THEN FALSE ELSE ray_success

\* A faulty physics_render without the "if i < ped_num: continue".
physics_render_all_blocks(p_num, num_blocks, rigidbody_world, ground, ray) ==
  LET hit_count == Cardinality({k \in 0..(num_blocks - 1) :
                                   is_block_hitting_ground(ground, ray[k])})
  IN  IF ~rigidbody_world
      THEN [error |-> "ValueError", collapse_state |-> "", hit_count |-> 0]
      ELSE [error |-> "",
            collapse_state |-> IF hit_count = 0 THEN "stable" ELSE "collapsed",
            hit_count |-> hit_count]

\* physics_render(index, ped_num, config), after the bake: at the last
\* frame hit_count counts the blocks k of range(num_blocks), those with
\* k < ped_num skipped, for which is_block_hitting_ground holds;
\* collapse_state is "stable" for hit_count == 0, else "collapsed".
physics_render(p_num, num_blocks, rigidbody_world, ground, ray) ==
  LET hit_count == Cardinality({k \in 0..(num_blocks - 1) :
                                   /\ ~(k < p_num)
                                   /\ is_block_hitting_ground(ground, ray[k])})
  IN  IF ~rigidbody_world
      THEN [error |-> "ValueError", collapse_state |-> "", hit_count |-> 0]
      ELSE [error |-> "",
            collapse_state |-> IF hit_count = 0 THEN "stable" ELSE "collapsed",
            hit_count |-> hit_count]

\* config["Scene"]["num_blocks"] of the rendered scenes.
RenderBlocks == 4

ApiPhysicsRender ==
  /\ pc = "api"
  /\ api = NoApi
  /\ \E p_num \in PedLo..PedHi, num_blocks \in 1..RenderBlocks,
        rigidbody_world \in BOOLEAN, ground \in BOOLEAN :
        \E ray \in [0..(num_blocks - 1) -> BOOLEAN] :
           LET r == physics_render(p_num, num_blocks, rigidbody_world,
                                   ground, ray)
           IN  api' = [op |-> "physics_render", ped_num |-> p_num,
                       num_blocks |-> num_blocks, ground |-> ground,
                       ray |-> ray, error |-> r.error,
                       collapse_state |-> r.collapse_state,
                       hit_count |-> r.hit_count]
  /\ UNCHANGED << hm, hm0, api_calls, planner_vars >>

NextRender == ApiPhysicsRender

SpecRender == InitSat /\ [][NextRender]_vars

\* A box without height next to the sizes of size_dic.
SizeFlat == << 4, 4, 0 >>
FlatSizes == SIZES \cup {SizeFlat}

\* collisiondetector.get_all_separating_axes(vertices1, vertices2) and
\* separating_axis_theorem(vertices1, vertices2) on the vertices of two
\* boxes, a box without height among them.
ApiSatAxes ==
  /\ pc = "api"
  /\ api = NoApi
  /\ \E size1 \in FlatSizes, rot1 \in Rotations, p2 \in SatPositions,
        size2 \in FlatSizes, rot2 \in Rotations :
        LET v1 == get_block_vertices(<<0, 0, 0>>, size1, rot1)
            v2 == get_block_vertices(p2, size2, rot2)
        IN  api' = [op |-> "axes",
                    a |-> Box(<<0, 0, 0>>, size1, rot1),
                    b |-> Box(p2, size2, rot2),
                    axes |-> get_all_separating_axes(v1, v2),
                    ab |-> separating_axis_theorem(v1, v2),
                    core_ab |-> core_separating_axis_theorem(v1, v2)]
  /\ UNCHANGED << hm, hm0, api_calls, planner_vars >>

NextAxes == ApiSatAxes

SpecAxes == InitSat /\ [][NextAxes]_vars

\* The quarter turns of rot_range.
TiltTurns == 0..3

\* get_polygon for a yaw of turn quarter turns plus t * e, each
\* coordinate a pair <<a, b>>: np.cos(angle) = c - s * t * e and
\* np.sin(angle) = s + c * t * e up to e * e.
tilt_get_polygon(p, size, turn, t) ==
  LET hl == size[1] \div 2
      hw == size[2] \div 2
      c == << Cos(turn), -Sin(turn) * t >>
      s == << Sin(turn), Cos(turn) * t >>
      M(n, d) == << n * d[1], n * d[2] >>
      T(k, u, v) == << k + u[1] + v[1], u[2] + v[2] >>
  IN  << << T(p[1], M(hl, c), M(-hw, s)),
            T(p[2], M(hl, s), M(hw, c)) >>,
         << T(p[1], M(hl, c), M(hw, s)),
            T(p[2], M(hl, s), M(-hw, c)) >>,
         << T(p[1], M(-hl, c), M(hw, s)),
            T(p[2], M(-hl, s), M(-hw, c)) >>,
         << T(p[1], M(-hl, c), M(-hw, s)),
            T(p[2], M(-hl, s), M(hw, c)) >> >>

\* heightmap.get_polygon and collisiondetector.get_block_vertices for the
\* same position, size and yaw; the yaw is a quarter turn in corners and
\* vertices and a quarter turn plus a tilt in tilt_corners and
\* tilt_vertices.
PolygonTilts == {-1, 0, 1}
ApiGetPolygon ==
  /\ pc = "api"
  /\ api = NoApi
  /\ \E p \in ApiPositions, size \in SIZES, turn \in TiltTurns,
        t \in PolygonTilts :
        api' = [op |-> "get_polygon", position |-> p, size |-> size,
                rotation |-> <<0, 0, turn>>, tilt |-> t,
                corners |-> get_polygon(p, size, <<0, 0, turn>>),
                vertices |-> get_block_vertices(p, size, <<0, 0, turn>>),
                tilt_corners |-> tilt_get_polygon(p, size, turn, t),
                tilt_vertices |-> tilt_get_block_vertices(p, size, turn, t)]
  /\ UNCHANGED << hm, hm0, api_calls, planner_vars >>

NextPolygon == ApiGetPolygon

SpecPolygon == InitSat /\ [][NextPolygon]_vars

\* The same two calls when the first box has a tilted yaw.  The second
\* box stands beside the first, in contact with it on y before the tilt
\* and overlapping it on x by one unit.
Tilts == {-1, 1}
TiltXs == {-7, 7}
TiltYs == {-4, 4}
TiltBox(p, size, turn, t) ==
  [position |-> p, size |-> size, turn |-> turn, tilt |-> t]

ApiTilt ==
  /\ pc = "api"
  /\ api = NoApi
  /\ \E size1 \in SIZES, t1 \in Tilts, x2 \in TiltXs, y2 \in TiltYs,
        size2 \in SIZES, turn2 \in TiltTurns, t2 \in {0} :
        \E v1 \in {tilt_get_block_vertices(<<0, 0, 0>>, size1, 0, t1)},
           v2 \in {tilt_get_block_vertices(<<x2, y2, 0>>, size2, turn2, t2)} :
            api' = [op |-> "tilt",
                    a |-> TiltBox(<<0, 0, 0>>, size1, 0, t1),
                    b |-> TiltBox(<<x2, y2, 0>>, size2, turn2, t2),
                    ab |-> tilt_separating_axis_theorem(v1, v2),
                    ba |-> tilt_separating_axis_theorem(v2, v1),
                    core_ab |-> tilt_core_separating_axis_theorem(v1, v2),
                    core_ba |-> tilt_core_separating_axis_theorem(v2, v1)]
  /\ UNCHANGED << hm, hm0, api_calls, planner_vars >>

\* The blocks a candidate at the origin is checked against: one over the
\* origin, one that a long candidate reaches and a tall one does not, one
\* out of reach; with or without a Blender object.
CheckXs == {0, 6, 16}
CheckBlocks ==
  {[position |-> <<x, 0, 0>>, size |-> size, rotation |-> <<0, 0, 0>>,
    blender_object |-> o] : x \in CheckXs, size \in SIZES, o \in BOOLEAN}
CheckLists ==
  {<< >>} \cup {<<b>> : b \in CheckBlocks}
          \cup {<<b, c>> : b \in CheckBlocks, c \in CheckBlocks}

\* check_block_collision(existing_blocks, position, size, rotation) of
\* script.py and of utils/collision_check.py on the same blocks.
ApiCheckBlockCollision ==
  /\ pc = "api"
  /\ api = NoApi
  /\ \E existing \in CheckLists, size \in SIZES :
        api' = [op |-> "check_block_collision",
                existing |-> existing,
                size |-> size,
                result |-> check_block_collision(
                               existing, <<0, 0, 0>>, size, <<0, 0, 0>>),
                core_result |-> core_check_block_collision(
                               existing, <<0, 0, 0>>, size, <<0, 0, 0>>)]
  /\ UNCHANGED << hm, hm0, api_calls, planner_vars >>

NextSat == ApiSat \/ ApiCheckBlockCollision

SpecSat == InitSat /\ [][NextSat]_vars

NextTilt == ApiTilt

SpecTilt == InitSat /\ [][NextTilt]_vars

\* Half edges of a box along x, y, z: a yaw of an odd multiple of 90
\* degrees exchanges length and width.
HalfExtent(box) ==
  IF box.rotation[3] % 2 = 0
  THEN << box.size[1] \div 2, box.size[2] \div 2, box.size[3] \div 2 >>
  ELSE << box.size[2] \div 2, box.size[1] \div 2, box.size[3] \div 2 >>

\* Length of the common extent of two boxes on axis d: positive for an
\* overlap, 0 for contact, negative for a gap.
ExtentOverlap(box1, box2, d) ==
  Min2(box1.position[d] + HalfExtent(box1)[d], box2.position[d] + HalfExtent(box2)[d])
  - Max2(box1.position[d] - HalfExtent(box1)[d], box2.position[d] - HalfExtent(box2)[d])

\* C11: separating_axis_theorem gives the same answer for (A, B) and for
\* (B, A), in script.py and in utils/collision_check.py, also when the
\* rounded keys keep a different axis for the two orders.
C11_SatSymmetric ==
  api.op \in {"sat", "tilt"} =>
    (api.ab = api.ba /\ api.core_ab = api.core_ba)

\* C12: for boxes with yaw a multiple of 90 degrees, script.py's
\* separating_axis_theorem reports a collision exactly when the extents
\* overlap with positive length on x, y and z.
C12_AxisAlignedOverlap ==
  api.op = "sat" =>
    (api.ab <=> \A d \in 1..3 : ExtentOverlap(api.a, api.b, d) > 0)

\* Two boxes that overlap on y and z with a gap on x: no collision.
C12_Witness ==
  /\ api.op = "sat"
  /\ ExtentOverlap(api.a, api.b, 1) < 0
  /\ ExtentOverlap(api.a, api.b, 2) > 0
  /\ ExtentOverlap(api.a, api.b, 3) > 0
  /\ ~api.ab

\* C13: when two boxes are in contact on some axis and overlap or are in
\* contact on every other, both detectors report a collision.
C13_TouchingCollides ==
  (/\ api.op = "sat"
   /\ \E d \in 1..3 : ExtentOverlap(api.a, api.b, d) = 0
   /\ \A d \in 1..3 : ExtentOverlap(api.a, api.b, d) >= 0)
  => (api.ab /\ api.core_ab)

\* The candidate of a check_block_collision call and the k-th block.
CheckCollides(k) ==
  separating_axis_theorem(
      get_block_vertices(<<0, 0, 0>>, api.size, <<0, 0, 0>>),
      get_block_vertices(api.existing[k].position, api.existing[k].size,
                         api.existing[k].rotation))
CoreCheckCollides(k) ==
  core_separating_axis_theorem(
      get_block_vertices(<<0, 0, 0>>, api.size, <<0, 0, 0>>),
      get_block_vertices(api.existing[k].position, api.existing[k].size,
                         api.existing[k].rotation))

\* C14: check_block_collision returns true exactly when the candidate
\* collides with at least one of the existing blocks, none left out, in
\* script.py and in utils/collision_check.py.
C14_CollidesWithSome ==
  api.op = "check_block_collision" =>
    /\ api.result <=> \E k \in 1..Len(api.existing) : CheckCollides(k)
    /\ api.core_result <=>
          \E k \in 1..Len(api.existing) : CoreCheckCollides(k)

\* A direct get_valid_positions call of either heightmap class.
ScanCall == api.op \in {"get_valid_positions", "core.get_valid_positions"}

\* C15: with the flag set get_valid_positions returns exactly 5
\* candidates, whatever the heightmap holds, each with z = 0 and with
\* (x, y) inside the square the class samples from ([-1, 1) in script.py,
\* [-2.5, 2.5) in core/heightmap.py, both inside the 20 x 20 surface).
SampleHalf ==
  IF api.op = "get_valid_positions" THEN GroundHalf ELSE CoreGroundHalf
C15_GroundCandidates ==
  (ScanCall /\ api.flag = 1) =>
    /\ Len(api.result) = GroundCount
    /\ \A k \in 1..Len(api.result) :
          /\ api.result[k][3] = 0
          /\ -SampleHalf <= api.result[k][1] /\ api.result[k][1] < SampleHalf
          /\ -SampleHalf <= api.result[k][2] /\ api.result[k][2] < SampleHalf

\* C16: with the flag unset get_valid_positions emits one candidate for
\* each cell with a nonzero height and a ratio in [0.4, 1.0), and none
\* for any other cell.
BandCells(self) ==
  {c \in DOMAIN self.height :
     /\ self.height[c] # 0
     /\ MinRatioDen * self.occupancy[c] >= MinRatioNum * self.resolution * self.resolution
     /\ self.occupancy[c] < self.resolution * self.resolution}
C16_StackedCandidates ==
  (ScanCall /\ api.flag = 0) =>
    /\ api.error = ""
    /\ Len(api.result) = Cardinality(BandCells(hm))

C18_PerSession ==
  api.op = "scene" =>
    /\ api.fresh
    /\ \A o \in 1..Len(api.heap) : Cardinality(api.users[o]) <= 1

\* The XY projections of a list of vertices, and of vertices with tilt
\* terms (as pairs of coordinates <<a, b>>).
ProjectXY(vertices) == {<< v[1], v[2] >> : v \in Range(vertices)}
TiltProjectXY(vertices) ==
  {<< << v[1][1], v[2][1] >>, << v[1][2], v[2][2] >> >> : v \in Range(vertices)}

\* C19: the 4 corners of get_polygon are exactly the distinct XY
\* projections of the 8 vertices of get_block_vertices for the same
\* position, size and yaw.
C19_FootprintIsProjection ==
  api.op = "get_polygon" =>
    /\ Range(api.corners) = ProjectXY(api.vertices)
    /\ Range(api.tilt_corners) = TiltProjectXY(api.tilt_vertices)
    /\ Cardinality(Range(api.corners)) = 4

\* A long block turned by 90 degrees, off the origin: length and width
\* are exchanged in the footprint.
C19_Witness ==
  /\ api.op = "get_polygon"
  /\ api.size = SizeLong
  /\ api.rotation[3] = 1
  /\ api.tilt # 0
  /\ api.position[1] # 0
  /\ PolyBounds(api.corners)[3] - PolyBounds(api.corners)[1] = SizeLong[2]

\* The cell c keeps its ratio over a step that is an update_height call
\* of script.py in which c does not meet the threshold, and takes the
\* ratio computed by the call when it does.
RatioWritten(c) ==
  LET b == PolyBounds(get_polygon(api'.position, api'.size, api'.rotation))
  IN  hm'.occupancy[c] =
        IF Qualifies(hm, c[1], c[2], b, api'.min_ratio)
        THEN InterArea(CellOverlap(hm, c[1], c[2], b))
        ELSE hm.occupancy[c]

\* C20: the stored ratio of a cell is the one computed by the latest
\* update_height call in which the cell met the threshold, larger or
\* smaller than the one stored before, and the initial value as long as
\* there was no such call: every call writes its ratio to the cells that
\* meet the threshold and leaves the ratio of all others.
C20_LastWrite ==
  [][api'.op = "update_height" =>
       \A c \in DOMAIN hm.occupancy : RatioWritten(c)]_vars

\* C21: the k-th candidate of a stacked-mode get_valid_positions call has
\* the stored height of the k-th scanned cell as z, and its (x, y) lies
\* in that cell.
C21_CandidateInItsCell ==
  (api.op = "get_valid_positions" /\ api.flag = 0) =>
    /\ Len(api.result) = Len(ScanCells(hm))
    /\ \A k \in 1..Len(api.result) :
          /\ api.result[k][3] = hm.height[ScanCells(hm)[k]]
          /\ world_to_grid(hm, api.result[k][1], api.result[k][2])
                = ScanCells(hm)[k]

\* C22: the committed list is append-only.  No step of the planner
\* changes a committed record; the list grows by exactly one record, the
\* one of the position just returned, in the step after a successful
\* get_block_position, and in no other step; after a failed placement
\* the list is the one the placement was given.
AppendOnlyStep ==
  /\ Len(blocks_data') >= Len(blocks_data)
  /\ SubSeq(blocks_data', 1, Len(blocks_data)) = blocks_data
  /\ Len(blocks_data') = Len(blocks_data) + (IF pc = "returned" THEN 1 ELSE 0)
  /\ pc = "returned" =>
        /\ blocks_data'[Len(blocks_data')].position = position
        /\ blocks_data'[Len(blocks_data')].size = cur.size
        /\ blocks_data'[Len(blocks_data')].rotation = cur.rot
  /\ pc' = "raised" => blocks_data' = blocks0'
C22_AppendOnly == [][AppendOnlyStep]_vars

\* A placement failed after two blocks were committed.
C22_Witness ==
  /\ pc = "raised"
  /\ Len(blocks_data) = 2
  /\ blocks0 = blocks_data

\* C23: no block that is still under placement is among the blocks a
\* collision check of the scene compares the candidate with.
C23_OnlyCommitted ==
  api.check # NoCheck => api.check.compared \cap api.check.not_placed = {}

C25_RetryBounded ==
  api.op = "scene" =>
    \A s \in 1..Len(api.scenes) :
       api.scenes[s].error \in {"", "ValueError: Could not place block"}

\* C26: every axis of get_all_separating_axes has non-zero length, and
\* when separating_axis_theorem reports no collision the projections of
\* the two boxes are apart (or touch) on an axis of non-zero length.
SeparatedOn(axis, a, b) ==
  LET p1 == project_vertices(Verts(a), axis)
      p2 == project_vertices(Verts(b), axis)
  IN  p1[2] <= p2[1] \/ p2[2] <= p1[1]
C26_NoZeroAxis ==
  api.op = "axes" =>
    /\ \A axis \in api.axes : AxisLength(axis) > 0
    /\ ~api.ab => \E axis \in api.axes :
                     AxisLength(axis) > 0 /\ SeparatedOn(axis, api.a, api.b)

\* C27: in every state of the heightmap every cell has a height >= 0 and
\* a stored ratio between 0 and 1 (an area between 0 and resolution^2).
C27_CellValues ==
  \A c \in DOMAIN hm.height :
     /\ hm.height[c] >= 0
     /\ 0 <= hm.occupancy[c]
     /\ hm.occupancy[c] <= hm.resolution * hm.resolution

\* Two update_height calls have raised one cell twice, and a cell holds a
\* ratio below 1.
C27_Witness ==
  /\ api.op = "update_height"
  /\ \E c \in DOMAIN hm.height : hm.height[c] > SizeTall[3]
  /\ \E c \in DOMAIN hm.height :
        hm.height[c] > 0 /\ hm.occupancy[c] < hm.resolution * hm.resolution

\* C28: a physics_render that has not raised reports "collapsed" exactly
\* when the ray cast to the ground has succeeded for at least one block
\* with index >= ped_num, and "stable" otherwise; the outcomes of the
\* blocks with index < ped_num do not enter.
DetectedHitting(k) == api.ground /\ api.ray[k]
C28_Verdict ==
  (api.op = "physics_render" /\ api.error = "") =>
    /\ api.collapse_state \in {"collapsed", "stable"}
    /\ api.collapse_state = "collapsed"
          <=> \E k \in 0..(api.num_blocks - 1) :
                 k >= api.ped_num /\ DetectedHitting(k)

\* The verdict is "stable" although a pedestal block is detected hitting
\* the ground, and there is a block that is no pedestal.
C28_Witness ==
  /\ api.op = "physics_render"
  /\ api.error = ""
  /\ api.collapse_state = "stable"
  /\ api.num_blocks > api.ped_num
  /\ \E k \in 0..(api.ped_num - 1) : DetectedHitting(k)

\* C29: every cell index at which the update_height call of a placement
\* on main's heightmap reads or writes a height or a ratio (the cells of
\* its loops that meet min_ratio) is within 0..grid_x-1 and 0..grid_y-1.
CellsWritten(self, call) ==
  LET b == PolyBounds(get_polygon(call[1], call[2], call[3]))
      lo == world_to_grid(self, b[1], b[2])
      hi == world_to_grid(self, b[3], b[4])
  IN  {c \in Range(LoopCells(lo[1], hi[1], lo[2], hi[2])) :
          Qualifies(self, c[1], c[2], b, << MinRatioNum, MinRatioDen >>)}
C29_IndicesInRange ==
  \A n \in 1..Len(upd_calls) :
     \A c \in CellsWritten(hm0, upd_calls[n]) : ValidIndex(hm0, c)

\* C30: throughout generate_blocks_data every colour count and every size
\* count is >= 0; the colour and the size of the block appended last had a
\* count > 0 when they were taken; random.choice was never given an empty
\* list, and while blocks are left to place a colour is left, and for a
\* block above the pedestals a size.
C30_Budgets ==
  api.op = "generate" =>
    /\ \A c \in COLORS : api.color_dic[c] >= 0
    /\ \A z \in SIZES : api.size_dic[z] >= 0
    /\ api.last # NoChoice => api.color_before > 0 /\ api.size_before > 0
    /\ api.error # "IndexError"
    /\ (api.error = "" /\ api.i < MainBlocks) =>
          /\ Choosable(api.color_dic) # {}
          /\ api.i >= api.ped_num => Choosable(api.size_dic) # {}
          /\ api.i < api.ped_num => api.size_dic[SizeTall] > 0

\* All 17 blocks are placed, five of them pedestals, and every budget is
\* used up.
C30_Witness ==
  /\ api.op = "generate"
  /\ api.i = MainBlocks
  /\ api.ped_num = PedHi
  /\ \A c \in COLORS : api.color_dic[c] = 0
  /\ \A z \in SIZES : api.size_dic[z] = 0

====
